---- MODULE Spec2Model ----
(***************************************************************************)
(* Model of bouter.free.FreelySwimmingExperiment: bout extraction from a   *)
(* per-frame tracking table and the per-bout summary table.                *)
(*                                                                         *)
(* Numbers are exact rationals <<n, d>> with d > 0 in lowest terms; the    *)
(* IEEE specials are <<0, 0>> (NaN), <<1, 0>> (+inf) and <<-1, 0>> (-inf). *)
(* A table (pandas DataFrame) is [cols, data]: the column labels in order  *)
(* and, at the same positions, the columns (sequences of numbers).  Frame  *)
(* indices are 0-based as in the source; frame i is element i + 1.         *)
(***************************************************************************)
EXTENDS Integers, Sequences, FiniteSets, TLC

VARIABLES
    pc,             \* position of the caller: which call is made / finished
    n_fish,         \* metadata tracking+fish_tracking / n_fish_max
    n_segments,     \* metadata tracking+fish_tracking / n_segments (tail points)
    behavior_log,   \* the experiment's tracking table
    args,           \* arguments of the call in progress
    dfint,          \* extract_bouts: the interpolated table (local df)
    vel2s,          \* extract_bouts: per fish, the activity signal handed to the extractor
    locs,           \* extract_bouts: per fish, the ranges the extractor returned
    bouts,          \* per fish, the list of Bout tables
    continuous,     \* per fish, the continuity array
    continuity_fish, \* extract_bouts: the continuity of the fish of the loop
    i_loop,         \* extract_bouts: the fish index of the loop
    ret             \* value returned by the last call (or the exception raised)

vars == <<pc, n_fish, n_segments, behavior_log, args, dfint, vel2s, locs,
          bouts, continuous, continuity_fish, i_loop, ret>>

-----------------------------------------------------------------------------
(* Bounds of the model *)

\* number of fish tracked is 1..MaxFish
MaxFish == 2
\* number of tail-angle columns per fish is 1..MaxSegments
MaxSegments == 1
\* frames of a table whose content is chosen freely
WindowLen == 3
\* bouts per fish handed to summarize_bouts is 0..MaxBouts
MaxBouts == 2

-----------------------------------------------------------------------------
(* Exact arithmetic with NaN and infinities *)

NaN == <<0, 0>>
Zero == <<0, 1>>
None == <<"None">>

Abs(a) == IF a < 0 THEN -a ELSE a
Sgn(a) == IF a < 0 THEN -1 ELSE IF a > 0 THEN 1 ELSE 0

RECURSIVE Gcd(_, _)
Gcd(a, b) == IF b = 0 THEN a ELSE Gcd(b, a % b)

Norm(n, d) ==
    IF d = 0 THEN <<Sgn(n), 0>>
    ELSE LET g == Gcd(Abs(n), Abs(d))
         IN  <<(Sgn(d) * n) \div g, Abs(d) \div g>>

R(k) == <<k, 1>>
IsNaN(a) == a = NaN
IsFinite(a) == a[2] # 0

RMul(a, b) ==
    IF a[2] = 0 \/ b[2] = 0 THEN <<Sgn(a[1]) * Sgn(b[1]), 0>>
    ELSE Norm(a[1] * b[1], a[2] * b[2])

RRecip(a) ==
    IF a = NaN THEN NaN
    ELSE IF a[2] = 0 THEN Zero
    ELSE IF a[1] = 0 THEN <<1, 0>>
    ELSE Norm(a[2], a[1])

RDiv(a, b) == RMul(a, RRecip(b))

RAdd(a, b) ==
    IF a[2] = 0 /\ b[2] = 0 THEN (IF a[1] = b[1] THEN a ELSE NaN)
    ELSE IF a[2] = 0 THEN a
    ELSE IF b[2] = 0 THEN b
    ELSE Norm(a[1] * b[2] + b[1] * a[2], a[2] * b[2])

RNeg(a) == <<-a[1], a[2]>>
RSub(a, b) == RAdd(a, RNeg(b))

\* a > b as numpy compares: false when either side is NaN
RGt(a, b) ==
    IF a = NaN \/ b = NaN THEN FALSE
    ELSE IF a[2] = 0 /\ b[2] = 0 THEN a[1] > b[1]
    ELSE IF a[2] = 0 THEN a[1] > 0
    ELSE IF b[2] = 0 THEN b[1] < 0
    ELSE a[1] * b[2] > b[1] * a[2]

-----------------------------------------------------------------------------
(* Tables *)

Range(s) == {s[k] : k \in DOMAIN s}
Min(a, b) == IF a < b THEN a ELSE b
Max(a, b) == IF a > b THEN a ELSE b

NRows(df) == IF df.data = <<>> THEN 0 ELSE Len(df.data[1])
NCols(df) == Len(df.cols)
HasCol(df, c) == c \in Range(df.cols)
ColIndex(df, c) == CHOOSE k \in DOMAIN df.cols : df.cols[k] = c
Col(df, c) == df.data[ColIndex(df, c)]

\* df.iloc[s:e] for 0 <= s, e
ILocRows(df, s, e) ==
    [cols |-> df.cols,
     data |-> [k \in DOMAIN df.data |-> SubSeq(df.data[k], s + 1, Min(e, NRows(df)))]]

\* df.filter(items): the columns of items that df has, in the order of items
Filter(df, items) ==
    LET keep == SelectSeq(items, LAMBDA c : HasCol(df, c))
    IN  [cols |-> keep, data |-> [k \in DOMAIN keep |-> Col(df, keep[k])]]

\* df.rename(columns=m): labels in DOMAIN m are replaced, the others kept
Rename(df, m) ==
    [cols |-> [k \in DOMAIN df.cols |->
                  IF df.cols[k] \in DOMAIN m THEN m[df.cols[k]] ELSE df.cols[k]],
     data |-> df.data]

\* df[c] = values: replaces column c, or appends it when df has none
SetCol(df, c, values) ==
    IF HasCol(df, c)
    THEN [cols |-> df.cols,
          data |-> [k \in DOMAIN df.data |->
                       IF df.cols[k] = c THEN values ELSE df.data[k]]]
    ELSE [cols |-> Append(df.cols, c), data |-> Append(df.data, values)]

-----------------------------------------------------------------------------
(* Column naming *)

\* "{:d}".format(i)
FmtD(i) == ToString(i)
\* "{:02d}".format(i)
Fmt02D(i) == IF i < 10 THEN "0" \o ToString(i) ELSE ToString(i)

Channels == <<"x", "vx", "y", "vy", "theta", "vtheta">>

FishCol(i_fish, ch) == "f" \o FmtD(i_fish) \o "_" \o ch
TailCol(i) == "theta_" \o Fmt02D(i)

_fish_column_names(i_fish, n_seg) ==
    [k \in 1..Len(Channels) |-> FishCol(i_fish, Channels[k])]
    \o [k \in 1..n_seg |-> FishCol(i_fish, TailCol(k - 1))]

_fish_renames(i_fish, n_seg) ==
    LET canon == Channels \o [k \in 1..n_seg |-> TailCol(k - 1)]
    IN  [c \in {FishCol(i_fish, canon[k]) : k \in DOMAIN canon} |->
            canon[CHOOSE k \in DOMAIN canon : FishCol(i_fish, canon[k]) = c]]

_rename_fish(df, i_fish, n_seg) ==
    Rename(Filter(df, <<"t">> \o _fish_column_names(i_fish, n_seg)),
           _fish_renames(i_fish, n_seg))

-----------------------------------------------------------------------------
(* Metadata properties *)

n_tail_segments_of(meta_n_segments) == meta_n_segments - 1

-----------------------------------------------------------------------------
(* _extract_bout *)

\* df.iloc[:, P] *= k for the 0-based column positions P that exist
MulCols(df, P, k) ==
    [cols |-> df.cols,
     data |-> [c \in DOMAIN df.data |->
                  IF (c - 1) \in P
                  THEN [r \in DOMAIN df.data[c] |-> RMul(df.data[c][r], k)]
                  ELSE df.data[c]]]

\* df.iloc[:, P] /= k for the 0-based column positions P that exist
DivCols(df, P, k) ==
    [cols |-> df.cols,
     data |-> [c \in DOMAIN df.data |->
                  IF (c - 1) \in P
                  THEN [r \in DOMAIN df.data[c] |-> RDiv(df.data[c][r], k)]
                  ELSE df.data[c]]]

\* columns 1:5, scaled to millimeters
ScaledPositions == 1..4
\* a conversion that divides only the planar velocities vx and vy
DividedPositionsPlanarOnly == {2, 4}
\* columns 2:7:2, divided by the time difference
DividedPositions == {2, 4, 6}

\* dt = (bout.t.values[-1] - bout.t.values[0]) / bout.shape[0]
EstimateDt(bout) ==
    LET t == Col(bout, "t")
    IN  RDiv(RSub(t[Len(t)], t[1]), R(NRows(bout)))

\* the time step _extract_bout divides by
BoutDt(bout, dt) == IF dt = None THEN EstimateDt(bout) ELSE dt

\* indexing values[-1] / values[0] of an empty bout raises IndexError
ExtractBoutRaises(log, s, e, dt) ==
    dt = None /\ NRows(ILocRows(log, s, e)) = 0

_extract_bout(log, s, e, n_seg, i_fish, scale, dt) ==
    LET bout == _rename_fish(ILocRows(log, s, e), i_fish, n_seg)
        step == BoutDt(bout, dt)
        inmm == MulCols(bout, ScaledPositions, scale)
    IN  DivCols(inmm, DividedPositions, step)

-----------------------------------------------------------------------------
(* Tracking tables of the model *)

\* what the tracker saw of a fish in a frame
Kinds == {"still", "move", "lost"}

\* number of "move" frames among the first i frames of pat
Moves(pat, i) == Cardinality({k \in 1..i : pat[k] = "move"})

\* fish f is seen f frames later than fish 0
FishPattern(pat, f) ==
    [i \in DOMAIN pat |-> IF i <= f THEN "still" ELSE pat[i - f]]

\* value of channel ch of fish f in 0-based frame i
Cell(pat, f, ch, i) ==
    LET m == Moves(pat, i)
        moving == pat[i + 1] = "move"
    IN  IF pat[i + 1] = "lost" THEN NaN
        ELSE CASE ch = "x" -> R(10 + 100 * f + 2 * m)
               [] ch = "vx" -> IF moving THEN R(2) ELSE Zero
               [] ch = "y" -> R(20 + m)
               [] ch = "vy" -> IF moving THEN R(1) ELSE Zero
               [] ch = "theta" -> R(3 * m)
               [] ch = "vtheta" -> IF moving THEN R(3) ELSE Zero
               [] OTHER -> R(5 + f)

\* the table of nf fish with nt tail angles each, sampled every d seconds
MakeLog(pat, nf, nt, d) ==
    LET names == <<"t">> \o
            [k \in 1..(nf * (6 + nt)) |->
                _fish_column_names((k - 1) \div (6 + nt), nt)[((k - 1) % (6 + nt)) + 1]]
        chans == Channels \o [k \in 1..nt |-> TailCol(k - 1)]
    IN  [cols |-> names,
         data |-> [k \in DOMAIN names |->
            IF k = 1 THEN [i \in DOMAIN pat |-> RMul(R(i - 1), d)]
            ELSE LET f == (k - 2) \div (6 + nt)
                     ch == chans[((k - 2) % (6 + nt)) + 1]
                 IN  [i \in DOMAIN pat |-> Cell(FishPattern(pat, f), f, ch, i - 1)]]]

\* the table without column c
DropCol(df, c) ==
    LET keep == SelectSeq(df.cols, LAMBDA n : n # c)
    IN  [cols |-> keep, data |-> [k \in DOMAIN keep |-> Col(df, keep[k])]]

Patterns(n) == [1..n -> Kinds]
SamplingIntervals == {<<1, 10>>, <<1, 2>>}
Scales == {<<1, 2>>, <<2, 1>>}
TimeSteps == {<<1, 10>>, <<1, 1>>}

-----------------------------------------------------------------------------
(* Calls of _extract_bout on a short table *)

InitBout ==
    /\ pc = "ready"
    /\ n_fish \in 1..MaxFish
    /\ n_segments \in 2..(MaxSegments + 1)
    /\ \E pat \in Patterns(WindowLen), d \in SamplingIntervals :
          behavior_log = MakeLog(pat, n_fish, n_tail_segments_of(n_segments), d)
    /\ args = <<>> /\ dfint = <<>> /\ vel2s = <<>> /\ locs = <<>>
    /\ bouts = <<>> /\ continuous = <<>> /\ continuity_fish = <<>>
    /\ i_loop = 0 /\ ret = None

\* one call self._extract_bout(s, e, n_segments, i_fish, scale, dt)
ExtractBoutCall(dt) ==
    /\ pc = "ready"
    /\ \E s \in 0..NRows(behavior_log), e \in 0..NRows(behavior_log),
          i \in 0..(n_fish - 1), k \in Scales :
          /\ s <= e
          /\ args' = [s |-> s, e |-> e, i_fish |-> i, scale |-> k, dt |-> dt]
          /\ IF ExtractBoutRaises(behavior_log, s, e, dt)
             THEN pc' = "raised" /\ ret' = <<"IndexError">>
             ELSE /\ pc' = "returned"
                  /\ ret' = _extract_bout(behavior_log, s, e,
                                n_tail_segments_of(n_segments), i, k, dt)
    /\ UNCHANGED <<n_fish, n_segments, behavior_log, dfint, vel2s, locs,
                   bouts, continuous, continuity_fish, i_loop>>

ExtractBoutExplicitDt == \E dt \in TimeSteps : ExtractBoutCall(dt)
ExtractBoutEstimatedDt == ExtractBoutCall(None)

NextBout == ExtractBoutExplicitDt \/ ExtractBoutEstimatedDt

SpecBout == InitBout /\ [][NextBout]_vars

-----------------------------------------------------------------------------
(* Unit conversion of one Bout (SpecBout) *)

\* the raw value under row r (1-based) of the returned bout, channel ch
RawCell(ch, r) == Col(behavior_log, FishCol(args.i_fish, ch))[args.s + r]
RawT(r) == Col(behavior_log, "t")[args.s + r]
\* the time step the call in args divides by
UsedDt == BoutDt(ILocRows(behavior_log, args.s, args.e), args.dt)
BoutRows == 1..(args.e - args.s)
TailNames == {TailCol(j) : j \in 0..(n_tail_segments_of(n_segments) - 1)}

PlanarConverted ==
    \A r \in BoutRows :
        /\ Col(ret, "x")[r] = RMul(RawCell("x", r), args.scale)
        /\ Col(ret, "y")[r] = RMul(RawCell("y", r), args.scale)
        /\ Col(ret, "vx")[r] = RMul(RawCell("vx", r), RDiv(args.scale, UsedDt))
        /\ Col(ret, "vy")[r] = RMul(RawCell("vy", r), RDiv(args.scale, UsedDt))

AnglesKept ==
    \A r \in BoutRows :
        /\ Col(ret, "t")[r] = RawT(r)
        /\ Col(ret, "theta")[r] = RawCell("theta", r)
        /\ \A c \in TailNames : Col(ret, c)[r] = RawCell(c, r)

\* C2 as stated: x and y are multiplied by k, vx and vy by k/dt, and every
\* other column (t, theta, vtheta, the tail angles) keeps its input value.
C2_AsStated ==
    pc = "returned" =>
        /\ PlanarConverted
        /\ AnglesKept
        /\ \A r \in BoutRows : Col(ret, "vtheta")[r] = RawCell("vtheta", r)

\* C2 amended: x and y are multiplied by k, vx and vy by k/dt, vtheta is
\* divided by dt, and t, theta and the tail angles keep their input values.
C2_UnitConversion ==
    pc = "returned" =>
        /\ ret.cols = <<"t">> \o Channels
                      \o [j \in 1..n_tail_segments_of(n_segments) |-> TailCol(j - 1)]
        /\ PlanarConverted
        /\ AnglesKept
        /\ \A r \in BoutRows :
              Col(ret, "vtheta")[r] = RDiv(RawCell("vtheta", r), UsedDt)

\* a bout of a moving fish converted with a time step other than 1
C2_Witness ==
    /\ pc = "returned"
    /\ args.dt = <<1, 10>>
    /\ \E r \in BoutRows :
          /\ RawCell("vtheta", r) = R(3)
          /\ Col(ret, "vtheta")[r] = R(30)
          /\ Col(ret, "vx")[r] = RMul(R(20), args.scale)
          /\ Col(ret, "theta")[r] = RawCell("theta", r)

\* the sampling interval of the table
SamplingInterval == RSub(Col(behavior_log, "t")[2], Col(behavior_log, "t")[1])

\* C7: without an explicit time step a Bout sampled every d seconds gets the
\* estimated time step d, so its velocities are multiplied by scale/d; for
\* t = [0, 0.1, 0.2], x = [10, 12, 14], scale 0.5: x = [5, 6, 7], dt = 0.1
\* and vx is 5 times the pixel velocity.
C7_EstimatedDt ==
    (pc = "returned" /\ args.dt = None) =>
        /\ (args.e - args.s >= 2) =>
              /\ UsedDt = SamplingInterval
              /\ \A r \in BoutRows :
                    Col(ret, "vx")[r] =
                        RMul(RawCell("vx", r), RDiv(args.scale, SamplingInterval))
        /\ ( /\ SubSeq(Col(behavior_log, "t"), 1, 3) = <<Zero, <<1, 10>>, <<1, 5>>>>
             /\ SubSeq(Col(behavior_log, "f0_x"), 1, 3) = <<R(10), R(12), R(14)>>
             /\ args.s = 0 /\ args.e = 3 /\ args.i_fish = 0
             /\ args.scale = <<1, 2>> )
           => /\ Col(ret, "x") = <<R(5), R(6), R(7)>>
              /\ UsedDt = <<1, 10>>
              /\ \A r \in BoutRows :
                    Col(ret, "vx")[r] = RMul(R(5), RawCell("vx", r))

-----------------------------------------------------------------------------
(* summarize_bouts *)

headers == <<"t_start", "x_start", "y_start", "theta_start",
             "t_end", "x_end", "y_end", "theta_end">>

\* a cell of the preallocated array that no assignment has written
Unwritten == <<"unwritten">>

RECURSIVE SumLens(_, _)
\* the sum of the lengths of the first n lists
SumLens(lists, n) ==
    IF n = 0 THEN 0 ELSE SumLens(lists, n - 1) + Len(lists[n])

\* np.empty((sum of len(bouts[i]), len(headers)))
EmptyData(lists) ==
    [r \in 1..SumLens(lists, Len(lists)) |-> [c \in 1..Len(headers) |-> Unwritten]]

\* t, x, y, theta of the bout at .iloc[idx], idx = 0 (first) or -1 (last)
Block(bout, first) ==
    LET at(c) == IF first THEN Col(bout, c)[1] ELSE Col(bout, c)[NRows(bout)]
    IN  <<at("t"), at("x"), at("y"), at("theta")>>

\* a summary that forgets the rows of the fish before: row i_bout
SummaryRowInFish(n_summarized_bouts, i_bout) == i_bout
\* the row the bout i_bout (0-based) of the current fish is written to
SummaryRow(n_summarized_bouts, i_bout) == n_summarized_bouts + i_bout

RECURSIVE FillBouts(_, _, _, _)
\* the inner loop: the first n bouts of one fish written to data
FillBouts(data, fish_bouts, n_summarized_bouts, n) ==
    IF n = 0 THEN data
    ELSE LET before == FillBouts(data, fish_bouts, n_summarized_bouts, n - 1)
             row == SummaryRow(n_summarized_bouts, n - 1) + 1
         IN  [before EXCEPT ![row] =
                 Block(fish_bouts[n], TRUE) \o Block(fish_bouts[n], FALSE)]

RECURSIVE FillFish(_, _, _)
\* the outer loop: the first nf fish written to data
FillFish(data, lists, nf) ==
    IF nf = 0 THEN data
    ELSE FillBouts(FillFish(data, lists, nf - 1), lists[nf],
                   SumLens(lists, nf - 1), Len(lists[nf]))

RECURSIVE Concat(_, _)
\* np.concatenate of the first n sequences
Concat(seqs, n) == IF n = 0 THEN <<>> ELSE Concat(seqs, n - 1) \o seqs[n]

\* a summary that numbers only the fish that have bouts
FishColumnForNonEmpty(lists) == Cardinality({f \in DOMAIN lists : lists[f] # <<>>}) > 1
\* len(bouts) > 1
HasFishColumn(lists) == Len(lists) > 1

\* np.full(len(bouts[i]), i, dtype=np.uint8) for each fish, concatenated
OriginFish(lists) ==
    Concat([f \in DOMAIN lists |-> [k \in DOMAIN lists[f] |-> R((f - 1) % 256)]],
           Len(lists))

\* the optional argument continuity: None, or a list of arrays
NoContinuity == [given |-> FALSE, arrays |-> <<>>]
Continuity(arrays) == [given |-> TRUE, arrays |-> arrays]
\* "if continuity:" of a list: given and not empty
Truthy(continuity) == continuity.given /\ continuity.arrays # <<>>

\* bout.t, bout.x, bout.y, bout.theta of a bout without the column raise
\* AttributeError; .iloc[0] of an empty bout raises IndexError; np.sum([]) is
\* the float 0.0, which np.empty rejects as a dimension
SummarizeRaises(lists, continuity) ==
    \/ Len(lists) = 0
    \/ \E f \in DOMAIN lists : \E k \in DOMAIN lists[f] :
          \/ \E c \in {"t", "x", "y", "theta"} : ~HasCol(lists[f][k], c)
          \/ NRows(lists[f][k]) = 0
    \/ Truthy(continuity)
          /\ Len(Concat(continuity.arrays, Len(continuity.arrays)))
                 # SumLens(lists, Len(lists))

summarize_bouts(lists, continuity) ==
    LET bout_data == FillFish(EmptyData(lists), lists, Len(lists))
        base == [cols |-> headers,
                 data |-> [c \in DOMAIN headers |->
                              [r \in DOMAIN bout_data |-> bout_data[r][c]]]]
        withc == IF Truthy(continuity)
                 THEN SetCol(base, "follows_previous",
                             Concat(continuity.arrays, Len(continuity.arrays)))
                 ELSE base
    IN  IF HasFishColumn(lists)
        THEN [cols |-> <<"i_fish">> \o withc.cols,
              data |-> <<OriginFish(lists)>> \o withc.data]
        ELSE withc

-----------------------------------------------------------------------------
(* Calls of summarize_bouts on per-fish lists of Bouts *)

\* the frame lengths of the bouts of one fish
BoutLengths == UNION {[1..n -> {1, 2}] : n \in 0..MaxBouts}

RECURSIVE BoutStart(_, _)
\* the bouts of a fish follow each other; a one-frame bout is followed by a
\* frame of rest, a two-frame bout by the next bout at once
BoutStart(lens, j) ==
    IF j = 1 THEN 0
    ELSE BoutStart(lens, j - 1) + lens[j - 1] + (IF lens[j - 1] = 1 THEN 1 ELSE 0)

InitSummary ==
    /\ pc = "ready"
    /\ n_fish \in 1..MaxFish
    /\ n_segments \in 2..(MaxSegments + 1)
    /\ behavior_log = MakeLog([i \in 1..(3 * MaxBouts) |-> "move"], n_fish,
                              n_tail_segments_of(n_segments), <<1, 10>>)
    /\ \E lens \in [1..n_fish -> BoutLengths] :
          /\ locs = [f \in 1..n_fish |-> [j \in DOMAIN lens[f] |->
                        <<BoutStart(lens[f], j), BoutStart(lens[f], j) + lens[f][j]>>]]
          /\ bouts = [f \in 1..n_fish |-> [j \in DOMAIN lens[f] |->
                        _extract_bout(behavior_log, locs[f][j][1], locs[f][j][2],
                            n_tail_segments_of(n_segments), f - 1, <<1, 2>>, None)]]
          /\ continuous = [f \in 1..n_fish |-> [j \in DOMAIN lens[f] |->
                              j > 1 /\ locs[f][j][1] = locs[f][j - 1][2]]]
    /\ args = <<>> /\ dfint = <<>> /\ vel2s = <<>> /\ continuity_fish = <<>>
    /\ i_loop = 0 /\ ret = None

\* one call self.summarize_bouts(bouts, continuity)
SummarizeCall(continuity) ==
    /\ pc = "ready"
    /\ args' = [continuity |-> continuity]
    /\ IF SummarizeRaises(bouts, continuity)
       THEN pc' = "raised" /\ ret' = <<"Error">>
       ELSE pc' = "returned" /\ ret' = summarize_bouts(bouts, continuity)
    /\ UNCHANGED <<n_fish, n_segments, behavior_log, dfint, vel2s, locs,
                   bouts, continuous, continuity_fish, i_loop>>

SummarizeWithoutContinuity == SummarizeCall(NoContinuity)
SummarizeWithContinuity == SummarizeCall(Continuity(continuous))

NextSummary == SummarizeWithoutContinuity \/ SummarizeWithContinuity

SpecSummary == InitSummary /\ [][NextSummary]_vars

\* the bouts in fish-index-major, within-fish list order, each with its fish
FlatBouts ==
    Concat([f \in DOMAIN bouts |-> [k \in DOMAIN bouts[f] |->
               [fish |-> f - 1, bout |-> bouts[f][k]]]], Len(bouts))

SummaryCell(r, c) == Col(ret, c)[r]
FirstOf(b, c) == Col(b, c)[1]
LastOf(b, c) == Col(b, c)[NRows(b)]

\* C3: the summary has one row per Bout of all fish; row r belongs to the
\* r-th Bout in fish-major, within-fish list order and holds (t, x, y, theta)
\* of its first frame in the start block and of its last frame in the end block.
C3_SummaryRows ==
    pc = "returned" =>
        /\ NRows(ret) = Len(FlatBouts)
        /\ \A r \in DOMAIN FlatBouts :
              LET b == FlatBouts[r].bout
              IN  /\ SummaryCell(r, "t_start") = FirstOf(b, "t")
                  /\ SummaryCell(r, "x_start") = FirstOf(b, "x")
                  /\ SummaryCell(r, "y_start") = FirstOf(b, "y")
                  /\ SummaryCell(r, "theta_start") = FirstOf(b, "theta")
                  /\ SummaryCell(r, "t_end") = LastOf(b, "t")
                  /\ SummaryCell(r, "x_end") = LastOf(b, "x")
                  /\ SummaryCell(r, "y_end") = LastOf(b, "y")
                  /\ SummaryCell(r, "theta_end") = LastOf(b, "theta")

\* two fish, the first without bouts, the second with two bouts of which
\* the last spans two frames
C3_Witness ==
    /\ pc = "returned"
    /\ Len(bouts) = 2 /\ bouts[1] = <<>> /\ Len(bouts[2]) = 2
    /\ NRows(ret) = 2
    /\ SummaryCell(2, "x_start") # SummaryCell(2, "x_end")
    /\ SummaryCell(1, "x_start") # SummaryCell(2, "x_start")

\* C10 as stated: the summary has an i_fish column iff more than one fish
\* list holds bouts, and then i_fish of every row is the index of the fish
\* list its Bout came from.
C10_AsStated ==
    pc = "returned" =>
        /\ HasCol(ret, "i_fish") <=>
              Cardinality({f \in DOMAIN bouts : bouts[f] # <<>>}) > 1
        /\ HasCol(ret, "i_fish") =>
              \A r \in DOMAIN FlatBouts : SummaryCell(r, "i_fish") = R(FlatBouts[r].fish)

\* C10 amended: the summary has an i_fish column iff more than one fish list
\* is passed, empty or not, and then i_fish of every row is the index of the
\* fish list its Bout came from.
C10_FishColumn ==
    pc = "returned" =>
        /\ HasCol(ret, "i_fish") <=> Len(bouts) > 1
        /\ HasCol(ret, "i_fish") =>
              \A r \in DOMAIN FlatBouts : SummaryCell(r, "i_fish") = R(FlatBouts[r].fish)

\* two fish lists of which only the second holds bouts: the column is there
C10_Witness ==
    /\ pc = "returned"
    /\ Len(bouts) = 2 /\ bouts[1] = <<>> /\ Len(bouts[2]) = 2
    /\ HasCol(ret, "i_fish")
    /\ Col(ret, "i_fish") = <<R(1), R(1)>>

-----------------------------------------------------------------------------
(* utilities.extract_segments_above_threshold, after its specification:   *)
(* mask, runs, minimum duration, padding with clipping and coalescing,    *)
(* frame cap, continuity flags.  Ranges are <<s, e>>, 0-based, half-open. *)

\* step 2: signal > threshold; a NaN frame is below threshold
AboveThreshold(trace, threshold) ==
    [i \in DOMAIN trace |-> RGt(trace[i], threshold)]

\* the elements of the set S of integers in increasing order
Sorted(S) ==
    [k \in 1..Cardinality(S) |->
        CHOOSE v \in S : Cardinality({u \in S : u < v}) = k - 1]

\* step 3: the maximal runs of TRUE of mask: a run starts at a rising edge
\* and ends at the next falling edge, or at the end of the signal
Runs(mask) ==
    LET n == Len(mask)
        rising == {i \in 1..n : mask[i] /\ (i = 1 \/ ~mask[i - 1])}
        falling == {i \in 1..n : mask[i] /\ (i = n \/ ~mask[i + 1])}
        starts == Sorted(rising)
        ends == Sorted(falling)
    IN  [k \in DOMAIN starts |-> <<starts[k] - 1, ends[k]>>]

\* step 4: runs shorter than the minimum duration are dropped
LongEnough(runs, min_duration) ==
    SelectSeq(runs, LAMBDA r : r[2] - r[1] >= min_duration)

\* step 5a: padding on each side, clipped to the signal
Padded(runs, pad_before, pad_after, n) ==
    [k \in DOMAIN runs |->
        <<Max(0, runs[k][1] - pad_before), Min(n, runs[k][2] + pad_after)>>]

\* a coalescing that never finds two ranges to overlap
NeverOverlaps(prev, cur) == FALSE
\* two padded ranges overlap when the later starts no later than the earlier
\* ends: the ranges [1,6) and [6,10) of the padding scenario are coalesced
Overlaps(prev, cur) == cur[1] <= prev[2]

\* a coalescing that keeps only the flag of the first range
FlagsOfFirstOnly(flags) == flags
\* step 5c: the flags of coalesced ranges are "set true for all but the
\* first": one more range coalesced adds one flag TRUE
FlagsWithFollower(flags) == Append(flags, TRUE)

RECURSIVE Coalesced(_, _)
\* step 5b: the first n padded ranges, overlapping ones coalesced into one;
\* every coalesced range holds the flags of the padded ranges it is made of
Coalesced(ranges, n) ==
    IF n = 0 THEN <<>>
    ELSE LET acc == Coalesced(ranges, n - 1)
             cur == ranges[n]
             last == acc[Len(acc)]
         IN  IF acc # <<>> /\ Overlaps(last.range, cur)
             THEN [acc EXCEPT ![Len(acc)] =
                      [range |-> <<last.range[1], Max(last.range[2], cur[2])>>,
                       flags |-> FlagsWithFollower(last.flags)]]
             ELSE Append(acc, [range |-> cur, flags |-> <<FALSE>>])

\* max_frames is <<>> (no cap) or <<m>> (at most m frames are processed)
NoCap == <<>>

\* step 6: ranges beyond the frame cap are discarded (with their flags),
\* ranges across it truncated
Capped(groups, max_frames) ==
    IF max_frames = NoCap THEN groups
    ELSE LET kept == SelectSeq(groups, LAMBDA g : g.range[1] < max_frames[1])
         IN  [k \in DOMAIN kept |->
                 [range |-> <<kept[k].range[1], Min(kept[k].range[2], max_frames[1])>>,
                  flags |-> kept[k].flags]]

\* the continuity array: the flags of the emitted ranges, in order
ContinuityFlags(groups) ==
    Concat([k \in DOMAIN groups |-> groups[k].flags], Len(groups))

\* the coalesced ranges of extract_segments_above_threshold(trace, threshold,
\* **kwargs), each with its flags
SegmentRanges(trace, threshold, kw) ==
    LET runs == LongEnough(Runs(AboveThreshold(trace, threshold)),
                           kw.min_duration)
        pads == Padded(runs, kw.pad_before, kw.pad_after, Len(trace))
    IN  Capped(Coalesced(pads, Len(pads)), kw.max_frames)

extract_segments_above_threshold(trace, threshold, kw) ==
    LET groups == SegmentRanges(trace, threshold, kw)
    IN  [locations |-> [k \in DOMAIN groups |-> groups[k].range],
         continuity |-> ContinuityFlags(groups)]

-----------------------------------------------------------------------------
(* Calls of the segment extractor on a signal *)

SignalLen == 4
SignalValues == {Zero, R(1), R(2), NaN}
ScenarioSignal ==
    <<Zero, Zero, R(2), R(2), R(2), Zero, Zero, R(3), R(3), Zero>>
Durations == {1, 2}
Pads == {0, 1}
FrameCaps(n) == {NoCap} \cup {<<m>> : m \in 1..n}

Options(n) ==
    [min_duration : Durations, pad_before : Pads, pad_after : Pads,
     max_frames : FrameCaps(n)]

InitSegments ==
    /\ pc = "ready"
    /\ n_fish = 1 /\ n_segments = 2
    /\ behavior_log = <<>>
    /\ \E trace \in [1..SignalLen -> SignalValues] \cup {ScenarioSignal} :
          vel2s = <<trace>>
    /\ args = <<>> /\ dfint = <<>> /\ locs = <<>> /\ bouts = <<>>
    /\ continuous = <<>> /\ continuity_fish = <<>>
    /\ i_loop = 0 /\ ret = None

\* one call utilities.extract_segments_above_threshold(trace, threshold=1, **kw)
ExtractSegmentsCall ==
    /\ pc = "ready"
    /\ \E kw \in Options(Len(vel2s[1])) :
          LET out == extract_segments_above_threshold(vel2s[1], R(1), kw)
          IN  /\ args' = [threshold |-> R(1), kw |-> kw]
              /\ locs' = <<out.locations>>
              /\ continuous' = <<out.continuity>>
              /\ ret' = out
    /\ pc' = "returned"
    /\ UNCHANGED <<n_fish, n_segments, behavior_log, dfint, vel2s, bouts,
                   continuity_fish, i_loop>>

NextSegments == ExtractSegmentsCall

SpecSegments == InitSegments /\ [][NextSegments]_vars

OneFlagPerRange == Len(continuous[1]) = Len(locs[1])
FlagIffZeroGap ==
    \A k \in DOMAIN locs[1] :
        k > 1 => (continuous[1][k] <=> locs[1][k][1] = locs[1][k - 1][2])
PaddingScenario ==
    /\ vel2s[1] = ScenarioSignal
    /\ args.kw = [min_duration |-> 2, pad_before |-> 1, pad_after |-> 1,
                  max_frames |-> NoCap]

PaddedRanges ==
    Padded(LongEnough(Runs(AboveThreshold(vel2s[1], args.threshold)),
                      args.kw.min_duration),
           args.kw.pad_before, args.kw.pad_after, Len(vel2s[1]))
\* the flags FALSE: one for every emitted range, the first flag among them
OneFalseFlagPerRange ==
    /\ Cardinality({k \in DOMAIN continuous[1] : ~continuous[1][k]}) = Len(locs[1])
    /\ continuous[1] # <<>> => ~continuous[1][1]
\* without a frame cap: one flag for every padded range, TRUE iff the range
\* starts no later than the padded range before it ends
FlagIffCoalesced ==
    args.kw.max_frames = NoCap =>
        /\ Len(continuous[1]) = Len(PaddedRanges)
        /\ \A k \in DOMAIN continuous[1] :
              continuous[1][k] <=> (k > 1 /\ PaddedRanges[k][1] <= PaddedRanges[k - 1][2])
\* at least one frame lies between two emitted ranges
RangesApart ==
    \A k \in DOMAIN locs[1] : k > 1 => locs[1][k][1] > locs[1][k - 1][2]

NoSharedFrame ==
    \A j, k \in DOMAIN locs[1] :
        j < k => (locs[1][j][2] <= locs[1][k][1] /\ locs[1][j][1] < locs[1][j][2])

\* C5 as stated: every emitted range has e - s >= minimum duration after
\* padding, clipping and frame-cap truncation, and no two ranges share a frame.
C5_AsStated ==
    pc = "returned" =>
        /\ \A k \in DOMAIN locs[1] : locs[1][k][2] - locs[1][k][1] >= args.kw.min_duration
        /\ NoSharedFrame

\* C5 amended: every emitted range that the frame cap has not truncated has
\* e - s >= minimum duration after padding and clipping, a range truncated
\* by the frame cap ends at the cap and is not empty, and no two ranges
\* share a frame.
C5_Ranges ==
    pc = "returned" =>
        /\ \A k \in DOMAIN locs[1] :
              LET s == locs[1][k][1]
                  e == locs[1][k][2]
              IN  /\ 0 <= s /\ s < e /\ e <= Len(vel2s[1])
                  /\ \/ e - s >= args.kw.min_duration
                     \/ args.kw.max_frames # NoCap /\ e = args.kw.max_frames[1]
        /\ NoSharedFrame

\* a padded range, and after it one that the frame cap has cut to less
\* than the minimum duration
C5_Witness ==
    /\ pc = "returned"
    /\ args.kw.min_duration = 2 /\ args.kw.pad_before = 1
    /\ args.kw.max_frames # NoCap
    /\ Len(locs[1]) = 2
    /\ locs[1][1][2] - locs[1][1][1] > 2
    /\ locs[1][2][2] - locs[1][2][1] = 1

-----------------------------------------------------------------------------
(* extract_bouts *)

\* defaults of the parameters of extract_bouts
DefaultMaxInterpolate == 2
DefaultWindowSize == 7
DefaultThreshold == 1
\* df.t[100:200]
DtSliceStart == 100
DtSliceStop == 200

\* bouter.get_scale_mm(self): the calibration of the experiment, mm per pixel
get_scale_mm == <<1, 4>>

\* scale = scale or get_scale_mm(self)
ResolveScale(scale) ==
    IF scale = None \/ scale = Zero THEN get_scale_mm ELSE scale

RECURSIVE SumRange(_, _, _)
\* xs[lo] + ... + xs[hi]
SumRange(xs, lo, hi) ==
    IF lo > hi THEN Zero
    ELSE IF lo = hi THEN xs[lo]
    ELSE LET mid == (lo + hi) \div 2
         IN  RAdd(SumRange(xs, lo, mid), SumRange(xs, mid + 1, hi))
SumSeq(xs, n) == SumRange(xs, 1, n)

\* np.diff(xs)
Diff(xs) == [i \in 1..(Len(xs) - 1) |-> RSub(xs[i + 1], xs[i])]
\* np.mean(xs): NaN for an empty array
Mean(xs) == RDiv(SumSeq(xs, Len(xs)), R(Len(xs)))

\* dt = np.mean(np.diff(df.t[100:200]))
FrameDt(df) ==
    LET t == Col(df, "t")
    IN  Mean(Diff(SubSeq(t, DtSliceStart + 1, Min(DtSliceStop, Len(t)))))

RECURSIVE PrevValid(_, _)
\* the last index before i whose value is not NaN, or 0
PrevValid(xs, i) ==
    IF i <= 1 THEN 0
    ELSE IF xs[i - 1] # NaN THEN i - 1 ELSE PrevValid(xs, i - 1)

RECURSIVE NextValid(_, _)
\* the first index after i whose value is not NaN, or 0
NextValid(xs, i) ==
    IF i >= Len(xs) THEN 0
    ELSE IF xs[i + 1] # NaN THEN i + 1 ELSE NextValid(xs, i + 1)

\* pandas fills, going forward, the first limit NaNs after a valid value
FilledByLimit(i, p, q, limit) == i - p <= limit

\* Series.interpolate("linear", limit=limit, limit_area="inside")
InterpolateSeries(xs, limit) ==
    [i \in DOMAIN xs |->
        IF xs[i] # NaN THEN xs[i]
        ELSE LET p == PrevValid(xs, i)
                 q == NextValid(xs, i)
             IN  IF p = 0 \/ q = 0 THEN NaN
                 ELSE IF ~FilledByLimit(i, p, q, limit) THEN NaN
                 ELSE RAdd(xs[p], RMul(RSub(xs[q], xs[p]), Norm(i - p, q - p)))]

\* df.interpolate("linear", limit=max_interpolate, limit_area="inside")
Interpolate(df, limit) ==
    [cols |-> df.cols,
     data |-> [k \in DOMAIN df.data |-> InterpolateSeries(df.data[k], limit)]]

\* np.r_[np.diff(xs), 0]
DiffThenZero(xs) == Diff(xs) \o <<Zero>>

\* the number of elements of xs below v, and not above v
CountBelow(xs, v) == Cardinality({k \in DOMAIN xs : RGt(v, xs[k])})
CountUpTo(xs, v) == Cardinality({k \in DOMAIN xs : ~RGt(xs[k], v)})
\* the k-th smallest element of xs
KthSmallest(xs, k) ==
    LET j == CHOOSE j \in DOMAIN xs :
                 CountBelow(xs, xs[j]) < k /\ k <= CountUpTo(xs, xs[j])
    IN  xs[j]

\* the median of a non-empty sequence without NaN
Median(xs) ==
    LET n == Len(xs)
    IN  IF n % 2 = 1 THEN KthSmallest(xs, (n + 1) \div 2)
        ELSE RDiv(RAdd(KthSmallest(xs, n \div 2), KthSmallest(xs, n \div 2 + 1)), R(2))

\* Series.rolling(window=w, min_periods=1).median(): the median of the values
\* that are not NaN among the last w, NaN when there is none
RollingMedian(xs, w) ==
    [i \in DOMAIN xs |->
        LET seen == SelectSeq(SubSeq(xs, Max(1, i - w + 1), i), LAMBDA v : v # NaN)
        IN  IF seen = <<>> THEN NaN ELSE Median(seen)]

Square(a) == RMul(a, a)

\* for thing in ["x", "y", "theta"]
Things == <<"x", "y", "theta">>

\* dfint["f{}_{}"] of a column the table does not have raises KeyError
RecalculateRaises(df, i_fish) ==
    \E k \in DOMAIN Things : ~HasCol(df, FishCol(i_fish, Things[k]))

RECURSIVE RecalculateFirst(_, _, _)
\* the table after the first n rounds of the loop over Things; the loop
\* stops at the first thing whose column is missing, the columns written
\* before stay written
RecalculateFirst(df, i_fish, n) ==
    IF n = 0 THEN df
    ELSE LET before == RecalculateFirst(df, i_fish, n - 1)
             thing == Things[n]
         IN  IF \E k \in 1..n : ~HasCol(df, FishCol(i_fish, Things[k]))
             THEN before
             ELSE SetCol(before, FishCol(i_fish, "v" \o thing),
                         DiffThenZero(Col(before, FishCol(i_fish, thing))))

\* the velocity columns recomputed for fish i_fish, as far as the loop gets
RecalculateVel(df, i_fish) == RecalculateFirst(df, i_fish, Len(Things))

Vel2Raises(df, i_fish) ==
    \E ch \in {"vx", "vy"} : ~HasCol(df, FishCol(i_fish, ch))

\* vel2 = (vx ** 2 + vy ** 2) * ((scale / dt) ** 2)
Vel2(df, i_fish, scale, dt) ==
    LET vx == Col(df, FishCol(i_fish, "vx"))
        vy == Col(df, FishCol(i_fish, "vy"))
        k2 == Square(RDiv(scale, dt))
    IN  [i \in DOMAIN vx |-> RMul(RAdd(Square(vx[i]), Square(vy[i])), k2)]

\* the table _extract_bout slices: self.behavior_log
BoutSource(raw, interpolated) == raw

-----------------------------------------------------------------------------
(* Calls of extract_bouts on a tracking table *)

\* frames after the freely chosen ones, in which the fish rests
RestFrames == 100

\* the **kwargs of the calls of the model, handed on to the segment extractor;
\* they are always passed explicitly
BaseKw == [min_duration |-> 1, pad_before |-> 0, pad_after |-> 0,
           max_frames |-> NoCap]
\* the defaults of the parameters of extract_bouts, with the keywords BaseKw
DefaultArgs ==
    [max_interpolate |-> DefaultMaxInterpolate, window_size |-> DefaultWindowSize,
     recalculate_vel |-> FALSE, median_vel |-> FALSE, scale |-> None,
     threshold |-> DefaultThreshold, kw |-> BaseKw]

\* the calls of the model: any max_interpolate (median_vel with the default
\* window or a window of 2) with at most one other parameter or keyword
\* away from DefaultArgs
ArgChoices ==
    LET vary == {DefaultArgs,
                 [DefaultArgs EXCEPT !.median_vel = TRUE],
                 [DefaultArgs EXCEPT !.median_vel = TRUE, !.window_size = 2],
                 [DefaultArgs EXCEPT !.recalculate_vel = TRUE],
                 [DefaultArgs EXCEPT !.scale = <<1, 2>>],
                 [DefaultArgs EXCEPT !.threshold = 0],
                 [DefaultArgs EXCEPT !.threshold = 0 - 1],
                 [DefaultArgs EXCEPT !.threshold = 2],
                 [DefaultArgs EXCEPT !.kw.min_duration = 2],
                 [DefaultArgs EXCEPT !.kw.pad_before = 1, !.kw.pad_after = 1]}
    IN  {[a EXCEPT !.max_interpolate = m] : a \in vary, m \in 1..DefaultMaxInterpolate}

FullPattern(pat) == pat \o [i \in 1..RestFrames |-> "still"]

InitExtract ==
    /\ pc = "ready"
    /\ n_fish \in {1, MaxFish}
    /\ n_segments = MaxSegments + 1
    /\ \/ \E pat \in Patterns(WindowLen) :
             behavior_log = MakeLog(FullPattern(pat), n_fish,
                                    n_tail_segments_of(n_segments), <<1, 2>>)
       \/ \E ch \in Range(Channels) \cup {TailCol(0)} :
             behavior_log =
                 DropCol(MakeLog(FullPattern([i \in 1..WindowLen |-> "move"]), n_fish,
                                 n_tail_segments_of(n_segments), <<1, 2>>),
                         FishCol(0, ch))
    /\ args = <<>> /\ dfint = <<>> /\ vel2s = <<>> /\ locs = <<>>
    /\ bouts = <<>> /\ continuous = <<>> /\ continuity_fish = <<>>
    /\ i_loop = 0 /\ ret = None

\* extract_bouts up to the loop over the fish
ExtractBoutsBegin ==
    /\ pc = "ready"
    /\ \E a \in ArgChoices :
          /\ args' = [a EXCEPT !.scale = ResolveScale(a.scale)]
                        @@ [dt |-> FrameDt(behavior_log)]
          /\ dfint' = Interpolate(behavior_log, a.max_interpolate)
    /\ bouts' = <<>> /\ continuous' = <<>> /\ vel2s' = <<>> /\ locs' = <<>>
    /\ continuity_fish' = <<>>
    /\ i_loop' = 0
    /\ pc' = "loop"
    /\ UNCHANGED <<n_fish, n_segments, behavior_log, ret>>

\* the loop over the fish, lines 102-106: the velocities recomputed
ExtractBoutsRecalculate ==
    /\ pc = "loop"
    /\ i_loop < n_fish
    /\ IF ~args.recalculate_vel
       THEN pc' = "velocity" /\ UNCHANGED <<dfint, ret>>
       ELSE IF RecalculateRaises(dfint, i_loop)
       THEN pc' = "raised" /\ ret' = <<"KeyError">>
                           /\ dfint' = RecalculateVel(dfint, i_loop)
       ELSE pc' = "velocity" /\ dfint' = RecalculateVel(dfint, i_loop)
                             /\ UNCHANGED ret
    /\ UNCHANGED <<n_fish, n_segments, behavior_log, args, vel2s, locs,
                   bouts, continuous, continuity_fish, i_loop>>

\* lines 108-110: the activity signal of the fish
ExtractBoutsVelocity ==
    /\ pc = "velocity"
    /\ IF Vel2Raises(dfint, i_loop)
       THEN pc' = "raised" /\ ret' = <<"KeyError">> /\ UNCHANGED vel2s
       ELSE /\ pc' = "smooth"
            /\ vel2s' = Append(vel2s, Vel2(dfint, i_loop, args.scale, args.dt))
            /\ UNCHANGED ret
    /\ UNCHANGED <<n_fish, n_segments, behavior_log, args, dfint, locs,
                   bouts, continuous, continuity_fish, i_loop>>

\* lines 111-112: the rolling median of the signal when median_vel is set
ExtractBoutsSmooth ==
    /\ pc = "smooth"
    /\ vel2s' = IF args.median_vel
                THEN [vel2s EXCEPT ![i_loop + 1] = RollingMedian(@, args.window_size)]
                ELSE vel2s
    /\ pc' = "segment"
    /\ UNCHANGED <<n_fish, n_segments, behavior_log, args, dfint, locs,
                   bouts, continuous, continuity_fish, i_loop, ret>>

\* lines 113-115: the ranges above threshold and their continuity
ExtractBoutsSegment ==
    /\ pc = "segment"
    /\ LET out == extract_segments_above_threshold(
                      vel2s[i_loop + 1], Square(R(args.threshold)), args.kw)
       IN  /\ locs' = Append(locs, out.locations)
           /\ continuity_fish' = out.continuity
    /\ pc' = "slice"
    /\ UNCHANGED <<n_fish, n_segments, behavior_log, args, dfint, vel2s,
                   bouts, continuous, i_loop, ret>>

\* lines 116-121: one Bout for each range (a range that selects no row
\* raises IndexError in _extract_bout), then the two lists are appended to
ExtractBoutsSlice ==
    /\ pc = "slice"
    /\ IF \E k \in DOMAIN locs[i_loop + 1] :
             ExtractBoutRaises(BoutSource(behavior_log, dfint),
                 locs[i_loop + 1][k][1], locs[i_loop + 1][k][2], None)
       THEN /\ pc' = "raised" /\ ret' = <<"IndexError">>
            /\ UNCHANGED <<bouts, continuous, i_loop>>
       ELSE /\ bouts' = Append(bouts,
                  [k \in DOMAIN locs[i_loop + 1] |->
                      _extract_bout(BoutSource(behavior_log, dfint),
                          locs[i_loop + 1][k][1], locs[i_loop + 1][k][2],
                          n_tail_segments_of(n_segments), i_loop, args.scale, None)])
            /\ continuous' = Append(continuous, continuity_fish)
            /\ i_loop' = i_loop + 1
            /\ pc' = "loop"
            /\ UNCHANGED ret
    /\ UNCHANGED <<n_fish, n_segments, behavior_log, args, dfint, vel2s, locs,
                   continuity_fish>>

\* return bouts, continuous
ExtractBoutsReturn ==
    /\ pc = "loop"
    /\ i_loop = n_fish
    /\ pc' = "returned"
    /\ ret' = <<bouts, continuous>>
    /\ UNCHANGED <<n_fish, n_segments, behavior_log, args, dfint, vel2s, locs,
                   bouts, continuous, continuity_fish, i_loop>>

NextExtract ==
    \/ ExtractBoutsBegin
    \/ ExtractBoutsRecalculate
    \/ ExtractBoutsVelocity
    \/ ExtractBoutsSmooth
    \/ ExtractBoutsSegment
    \/ ExtractBoutsSlice
    \/ ExtractBoutsReturn

SpecExtract == InitExtract /\ [][NextExtract]_vars

-----------------------------------------------------------------------------
(* Bout extraction (SpecExtract) *)

Fish == 0..(n_fish - 1)
ExpectedColumns(f) == Range(_fish_column_names(f, n_tail_segments_of(n_segments)))
\* the table has every column the metadata promise
WellFormedLog == \A f \in Fish : \A c \in ExpectedColumns(f) : HasCol(behavior_log, c)

\* C1: every Bout is the slice [s, e) of the interpolated table (velocities
\* recomputed when asked), restricted to the fish, renamed and unit-converted:
\* its values are those of the interpolated table, not of the raw one.
C1_BoutsFromInterpolated ==
    (pc = "returned" /\ WellFormedLog /\ args.threshold > 0) =>
        \A f \in Fish : \A k \in DOMAIN bouts[f + 1] :
            bouts[f + 1][k] =
                _extract_bout(dfint, locs[f + 1][k][1], locs[f + 1][k][2],
                    n_tail_segments_of(n_segments), f, args.scale, None)

\* the length of the run of NaN that element i of xs lies in
NaNRunLength(xs, i) ==
    LET p == PrevValid(xs, i)
        q == NextValid(xs, i)
    IN  (IF q = 0 THEN Len(xs) + 1 ELSE q) - p - 1

\* C6: of a run of NaN frames longer than max_interpolate no frame is filled
\* by the interpolation and no frame is classified as above threshold,
\* whatever the configuration.
C6_LongGapsStayInactive ==
    (pc = "returned" /\ WellFormedLog /\ args.threshold > 0) =>
        \A f \in Fish :
            LET raw == Col(behavior_log, FishCol(f, "x"))
            IN  \A i \in DOMAIN raw :
                    (raw[i] = NaN /\ NaNRunLength(raw, i) > args.max_interpolate) =>
                        /\ Col(dfint, FishCol(f, "x"))[i] = NaN
                        /\ ~AboveThreshold(vel2s[f + 1], Square(R(args.threshold)))[i]

\* C8: a call with a threshold that is zero or negative ends in an error: it
\* neither segments the signal with the squared threshold nor returns bouts.
C8_NonPositiveThresholdRejected ==
    (pc # "ready" /\ args.threshold <= 0) => pc \notin {"slice", "returned"}

\* C9: when the table lacks an expected column of a tracked fish, the
\* extraction fails: it returns nothing, and no Bout has fewer columns than
\* the canonical set.
C9_MissingColumnRejected ==
    (pc # "ready" /\ ~WellFormedLog /\ args.threshold > 0) =>
        /\ pc # "returned"
        /\ \A f \in DOMAIN bouts : \A k \in DOMAIN bouts[f] :
              NCols(bouts[f][k]) = 1 + Len(Channels) + n_tail_segments_of(n_segments)

====
